---- MODULE Spec2Model ----
(***************************************************************************)
(* Frame-extraction engine of Pixtrono (src/app.py): the time parser       *)
(* parse_time_str, the video frame source read_frame_at and the batch      *)
(* loop of the /process handler.                                           *)
(*                                                                         *)
(* Strings are sequences of one-character strings.  Python floats are      *)
(* modelled as exact rationals [n, d] (d > 0), with NaN as the record      *)
(* whose denominator is 0; rounding error of binary floating point is not  *)
(* modelled.  A decoded frame is identified by the position it was read    *)
(* at.  Download, PDF/PPT export and HTTP plumbing are outside the model.  *)
(***************************************************************************)
EXTENDS Integers, Sequences, FiniteSets, TLC

\* ------------------------------------------------------------------------
\* Bounds of the model
\* ------------------------------------------------------------------------

\* Longest token the parser-only specification enumerates.
MaxTokLen == 3

\* Most tokens in an enumerated batch string.
MaxTokens == 2

\* ------------------------------------------------------------------------
\* Program constants
\* ------------------------------------------------------------------------

\* fps = cap.get(cv2.CAP_PROP_FPS) or 30
DefaultFps == 30

\* for i in range(1, 5): the last retry offset
RetryWindow == 4

\* ------------------------------------------------------------------------
\* Exact rationals standing for Python floats
\* ------------------------------------------------------------------------

Abs(x) == IF x < 0 THEN -x ELSE x

RECURSIVE GCD(_, _)
GCD(a, b) == IF b = 0 THEN a ELSE GCD(b, a % b)

\* The rational n/d in lowest terms (d > 0).
Rat(n, d) ==
    LET g == GCD(Abs(n), d)
    IN  [n |-> n \div g, d |-> d \div g]

\* float("nan")
NaN == [n |-> 0, d |-> 0]

IsNaN(x) == x.d = 0

RInt(k) == [n |-> k, d |-> 1]

RAdd(x, y) ==
    IF IsNaN(x) \/ IsNaN(y) THEN NaN
    ELSE Rat(x.n * y.d + y.n * x.d, x.d * y.d)

RSub(x, y) ==
    IF IsNaN(x) \/ IsNaN(y) THEN NaN
    ELSE Rat(x.n * y.d - y.n * x.d, x.d * y.d)

RMul(x, y) ==
    IF IsNaN(x) \/ IsNaN(y) THEN NaN
    ELSE Rat(x.n * y.n, x.d * y.d)

\* x / y for y > 0
RDiv(x, y) ==
    IF IsNaN(x) \/ IsNaN(y) THEN NaN
    ELSE Rat(x.n * y.d, x.d * y.n)

\* x > y; every comparison with NaN is false
RGt(x, y) == ~IsNaN(x) /\ ~IsNaN(y) /\ x.n * y.d > y.n * x.d

\* max(0, x) for a number x
RMax0(x) == IF RGt(x, RInt(0)) THEN x ELSE RInt(0)

\* int(x): truncation toward zero (x is not NaN; int(nan) raises)
Trunc(x) ==
    IF x.n >= 0 THEN x.n \div x.d ELSE -((-x.n) \div x.d)

\* Nearest integer of a rational (halves upward).
Round(x) == (2 * x.n + x.d) \div (2 * x.d)

\* ------------------------------------------------------------------------
\* String helpers: str.strip, re.split, str.split(":"), float
\* ------------------------------------------------------------------------

\* Whitespace removed by str.strip()
Whitespace == {" ", "\n", "\t"}

RECURSIVE LStrip(_)
LStrip(s) ==
    IF s # <<>> /\ Head(s) \in Whitespace THEN LStrip(Tail(s)) ELSE s

RECURSIVE RStrip(_)
RStrip(s) ==
    IF s # <<>> /\ s[Len(s)] \in Whitespace
    THEN RStrip(SubSeq(s, 1, Len(s) - 1))
    ELSE s

\* x.strip()
strip(s) == RStrip(LStrip(s))

\* The character class of r"[,\\s]+": in a raw string \\ is an escaped
\* backslash, so the class holds a comma, a backslash and the letter s.
SepClass == {",", "\\", "s"}

\* Left-to-right scan of re.split on runs of class characters: cur is the
\* piece being collected, inrun tells whether the previous character
\* belonged to a separator run.
RECURSIVE SplitRuns(_, _, _, _, _)
SplitRuns(class, rest, cur, acc, inrun) ==
    IF rest = <<>> THEN Append(acc, cur)
    ELSE IF Head(rest) \in class
         THEN IF inrun
              THEN SplitRuns(class, Tail(rest), cur, acc, TRUE)
              ELSE SplitRuns(class, Tail(rest), <<>>, Append(acc, cur), TRUE)
         ELSE SplitRuns(class, Tail(rest), Append(cur, Head(rest)), acc, FALSE)

\* re.split(r"[,\\s]+", times_raw)
re_split(s) == SplitRuns(SepClass, s, <<>>, <<>>, FALSE)

\* tstr.split(":"): every colon splits, empty pieces are kept
RECURSIVE SplitColon(_, _, _)
SplitColon(rest, cur, acc) ==
    IF rest = <<>> THEN Append(acc, cur)
    ELSE IF Head(rest) = ":"
         THEN SplitColon(Tail(rest), <<>>, Append(acc, cur))
         ELSE SplitColon(Tail(rest), Append(cur, Head(rest)), acc)

Digits == {"0", "1", "2", "3", "4", "5", "6", "7", "8", "9"}

DigitVal(c) ==
    CASE c = "0" -> 0 [] c = "1" -> 1 [] c = "2" -> 2 [] c = "3" -> 3
      [] c = "4" -> 4 [] c = "5" -> 5 [] c = "6" -> 6 [] c = "7" -> 7
      [] c = "8" -> 8 [] c = "9" -> 9

AllDigits(s) == \A i \in 1..Len(s) : s[i] \in Digits

RECURSIVE NatVal(_)
NatVal(s) ==
    IF s = <<>> THEN 0
    ELSE 10 * NatVal(SubSeq(s, 1, Len(s) - 1)) + DigitVal(s[Len(s)])

RECURSIVE Pow10(_)
Pow10(k) == IF k = 0 THEN 1 ELSE 10 * Pow10(k - 1)

\* float(p) on the characters the model draws (digits, sign, point, "nan",
\* whitespace, other letters): surrounding whitespace is stripped, a sign is
\* accepted, "nan" is a float, anything else must be digits with at most one
\* point and at least one digit.  ok = FALSE stands for ValueError.
float(p) ==
    LET t      == strip(p)
        signed == t # <<>> /\ Head(t) \in {"+", "-"}
        neg    == t # <<>> /\ Head(t) = "-"
        body   == IF signed THEN Tail(t) ELSE t
        dots   == {i \in 1..Len(body) : body[i] = "."}
        pt     == IF dots = {} THEN Len(body) + 1
                  ELSE CHOOSE i \in dots : \A j \in dots : i <= j
        ip     == SubSeq(body, 1, pt - 1)
        fp     == SubSeq(body, pt + 1, Len(body))
        mag    == Rat(NatVal(ip) * Pow10(Len(fp)) + NatVal(fp), Pow10(Len(fp)))
    IN  IF body = <<"n", "a", "n">> THEN [ok |-> TRUE, val |-> NaN]
        ELSE IF AllDigits(ip) /\ AllDigits(fp) /\ Len(ip) + Len(fp) > 0
             THEN [ok |-> TRUE,
                   val |-> IF neg THEN RSub(RInt(0), mag) ELSE mag]
             ELSE [ok |-> FALSE, val |-> RInt(0)]

\* The result of a call that raised ValueError
Raised == [ok |-> FALSE, val |-> RInt(0)]

parse_time_str(tstr) ==
    LET ps    == SplitColon(tstr, <<>>, <<>>)
        parts == [i \in 1..Len(ps) |-> float(ps[i])]
    IN  IF \E i \in 1..Len(ps) : ~parts[i].ok THEN Raised
        ELSE IF Len(parts) = 1 THEN [ok |-> TRUE, val |-> parts[1].val]
        ELSE IF Len(parts) = 2
             THEN [ok |-> TRUE,
                   val |-> RAdd(RMul(parts[1].val, RInt(60)), parts[2].val)]
        ELSE IF Len(parts) = 3
             THEN [ok |-> TRUE,
                   val |-> RAdd(RAdd(RMul(parts[1].val, RInt(3600)),
                                     RMul(parts[2].val, RInt(60))),
                                parts[3].val)]
        ELSE Raised

\* ------------------------------------------------------------------------
\* read_frame_at: the frame index first sought
\* ------------------------------------------------------------------------

\* fps = cap.get(cv2.CAP_PROP_FPS) or 30
Fps(v) == IF v.fps = 0 THEN RInt(DefaultFps) ELSE RInt(v.fps)

\* duration = total_frames / fps if fps else 0
Duration(v) == RDiv(RInt(v.frame_count), Fps(v))

\* if time_s > duration and duration > 0: time_s = max(0, duration - 0.1)
ClampTime(t, v) ==
    IF RGt(t, Duration(v)) /\ RGt(Duration(v), RInt(0))
    THEN RMax0(RSub(Duration(v), Rat(1, 10)))
    ELSE t

Min(a, b) == IF a < b THEN a ELSE b

Max(a, b) == IF a > b THEN a ELSE b

\* Mutation of FrameIdx: round() where the code has int().
FrameIdxRounded(t, v) ==
    Max(0, Min(Round(RMul(ClampTime(t, v), Fps(v))), v.frame_count - 1))

\* frame_idx = max(0, min(int(time_s * fps), total_frames - 1)), for a
\* time that is not NaN
FrameIdx(t, v) ==
    Max(0, Min(Trunc(RMul(ClampTime(t, v), Fps(v))), v.frame_count - 1))

\* ------------------------------------------------------------------------
\* The artifact name f"frame_{int(t*1000)}ms.jpg"
\* ------------------------------------------------------------------------

DigitStr(d) ==
    CASE d = 0 -> "0" [] d = 1 -> "1" [] d = 2 -> "2" [] d = 3 -> "3"
      [] d = 4 -> "4" [] d = 5 -> "5" [] d = 6 -> "6" [] d = 7 -> "7"
      [] d = 8 -> "8" [] d = 9 -> "9"

RECURSIVE NatToStr(_)
NatToStr(n) ==
    IF n < 10 THEN DigitStr(n)
    ELSE NatToStr(n \div 10) \o DigitStr(n % 10)

\* str() of an integer
IntToStr(n) == IF n < 0 THEN "-" \o NatToStr(-n) ELSE NatToStr(n)

\* Mutation of Millis: int(t)*1000, whole seconds scaled.
MillisWholeSeconds(t) == 1000 * Trunc(t)

\* int(t*1000)
Millis(t) == Trunc(RMul(t, RInt(1000)))

FrameName(t) == "frame_" \o IntToStr(Millis(t)) \o "ms.jpg"

\* ------------------------------------------------------------------------
\* Inputs
\* ------------------------------------------------------------------------

\* Tokens of the enumerated batches: 5 s, 50.6 ms, -5 s, nan, and a word.
BatchTokens ==
    { <<"5">>, <<"0", ".", "0", "5", "0", "6">>, <<"-", "5">>,
      <<"n", "a", "n">>, <<"x">> }

\* Separators of the enumerated batches.
BatchSeps == { <<",">>, <<" ">>, <<",", " ">> }

\* Batches taken from the documented examples and edge cases.
ExampleBatches ==
    { [tokens |-> << <<"1", ":", "0", "0">>, <<"2", ":", "0", "0">>,
                     <<"3", ":", "0", "0">> >>,
       seps   |-> << <<",", " ">>, <<"\n">> >>],
      [tokens |-> << <<"0", ":", "0", "0">>, <<"0", ":", "0", "5">>,
                     <<"0", ":", "0", "9">> >>,
       seps   |-> << <<",">>, <<",">> >>],
      [tokens |-> << <<"1", "5">> >>, seps |-> <<>>],
      [tokens |-> << <<"1", ":", "0", "1", ":", "3", "0">>,
                     <<"1", ":", "2", ":", "3", ":", "4">> >>,
       seps   |-> << <<",">> >>],
      [tokens |-> << <<>>, <<"5">> >>, seps |-> << <<",">> >>],
      [tokens |-> << <<"5">>, <<"5">> >>, seps |-> << <<",", ",">> >>],
      [tokens |-> << <<>> >>, seps |-> <<>>] }

Batches ==
    ExampleBatches \cup
    UNION { { [tokens |-> ts, seps |-> ss] :
                ts \in [1..n -> BatchTokens], ss \in [1..(n - 1) -> BatchSeps] } :
            n \in 1..MaxTokens }

\* The raw form field: the tokens joined by the separators.
RECURSIVE Join(_, _)
Join(ts, ss) ==
    IF Len(ts) = 0 THEN <<>>
    ELSE IF Len(ts) = 1 THEN ts[1]
    ELSE ts[1] \o ss[1] \o Join(Tail(ts), Tail(ss))

\* Videos: 10 s at 30 fps; no frames and no reported rate; 3 frames at
\* 2 fps; a resource that does not open.
Videos ==
    { [openable |-> TRUE,  fps |-> 30, frame_count |-> 300],
      [openable |-> TRUE,  fps |-> 0,  frame_count |-> 0],
      [openable |-> TRUE,  fps |-> 2,  frame_count |-> 3],
      [openable |-> FALSE, fps |-> 0,  frame_count |-> 0] }

ParseChars == {"1", "5", ":", "-", ".", "x", " "}

RECURSIVE StringsUpTo(_)
StringsUpTo(n) ==
    IF n = 0 THEN { <<>> }
    ELSE LET shorter == StringsUpTo(n - 1)
         IN  shorter \cup { Append(s, c) : s \in shorter, c \in ParseChars }

\* Tokens handed to parse_time_str in the parser-only specification.
ParseInputs ==
    StringsUpTo(MaxTokLen) \cup
    { <<"9", "0">>, <<"1", ":", "3", "0">>,
      <<"1", ":", "0", "1", ":", "3", "0">>,
      <<"1", ":", "2", ":", "3", ":", "4">>,
      <<"1", ":", "-", "3", "0">>, <<"n", "a", "n">> }

\* ------------------------------------------------------------------------
\* State
\* ------------------------------------------------------------------------

VARIABLES
    batch,          \* the tokens and separators the raw string was built from
    raw,            \* request.form["times"]
    video,          \* the video resource at video_path
    pc,             \* position in the handler
    parts,          \* re.split result
    k,              \* index of the part the comprehension is at
    tstr,           \* argument of the current parse_time_str call
    parsed,         \* its result
    custom_times,   \* parsed times
    idx,            \* index of the loop's current t in custom_times
    cap,            \* the VideoCapture of the current read_frame_at call
    handles,        \* decoder handles opened and not released
    opens,          \* VideoCapture objects constructed so far
    frame_idx,      \* frame_idx of the current call
    i,              \* retry loop variable
    positions,      \* positions set on the decoder in the current call
    reads,          \* outcome of each cap.read() in the current call
    frame,          \* value returned by the current call
    results,        \* per read_frame_at call so far: whether it returned a frame
    saved_images,   \* saved_images
    files,          \* names present in frames_dir
    manifest,       \* manifest.json
    flash           \* flashed error, if any

vars ==
    << batch, raw, video, pc, parts, k, tstr, parsed, custom_times, idx, cap,
       handles, opens, frame_idx, i, positions, reads, frame, results,
       saved_images, files, manifest, flash >>

\* read_frame_at returned None
None == <<>>

NoManifest == [written |-> FALSE, images |-> <<>>]

\* Everything but the inputs and pc, before the handler has run.
Fresh ==
    /\ parts = <<>>
    /\ k = 1
    /\ parsed = Raised
    /\ custom_times = <<>>
    /\ idx = 1
    /\ cap = "none"
    /\ handles = 0
    /\ opens = 0
    /\ frame_idx = 0
    /\ i = 0
    /\ positions = <<>>
    /\ reads = <<>>
    /\ frame = None
    /\ results = <<>>
    /\ saved_images = <<>>
    /\ files = {}
    /\ manifest = NoManifest
    /\ flash = "none"

\* A POST to /process with a video that exists locally.
Init ==
    /\ batch \in Batches
    /\ raw = Join(batch.tokens, batch.seps)
    /\ video \in Videos
    /\ pc = "request"
    /\ tstr = <<>>
    /\ Fresh

\* A single call of parse_time_str.
InitParse ==
    /\ batch = [tokens |-> <<>>, seps |-> <<>>]
    /\ raw = <<>>
    /\ video = [openable |-> FALSE, fps |-> 0, frame_count |-> 0]
    /\ pc = "call"
    /\ tstr \in ParseInputs
    /\ Fresh

\* ------------------------------------------------------------------------
\* The /process handler
\* ------------------------------------------------------------------------

\* times_raw = request.form.get("times", "").strip(); an empty field is
\* rejected with a flash before anything else happens.
Validate ==
    /\ pc = "request"
    /\ IF strip(raw) = <<>>
       THEN /\ pc' = "rejected"
            /\ flash' = "missing"
       ELSE /\ pc' = "split"
            /\ flash' = flash
    /\ UNCHANGED << batch, raw, video, parts, k, tstr, parsed, custom_times,
                    idx, cap, handles, opens, frame_idx, i, positions, reads,
                    frame, results, saved_images, files, manifest >>

\* parts = re.split(r"[,\\s]+", times_raw)
Split ==
    /\ pc = "split"
    /\ parts' = re_split(strip(raw))
    /\ k' = 1
    /\ pc' = "parsing"
    /\ UNCHANGED << batch, raw, video, tstr, parsed, custom_times, idx, cap,
                    handles, opens, frame_idx, i, positions, reads, frame,
                    results, saved_images, files, manifest, flash >>

\* Mutation of ParseToken: a token that does not parse is passed over
\* instead of aborting the batch.
ParseTokenLenient ==
    /\ pc = "parsing"
    /\ k <= Len(parts)
    /\ LET x == strip(parts[k])
       IN  IF x = <<>>
           THEN UNCHANGED << tstr, parsed, custom_times >>
           ELSE /\ tstr' = x
                /\ parsed' = parse_time_str(x)
                /\ custom_times' = IF parsed'.ok
                                   THEN Append(custom_times, parsed'.val)
                                   ELSE custom_times
    /\ k' = k + 1
    /\ UNCHANGED << batch, raw, video, pc, parts, idx, cap, handles, opens,
                    frame_idx, i, positions, reads, frame, results,
                    saved_images, files, manifest, flash >>

\* One element of [parse_time_str(x.strip()) for x in parts if x.strip()]:
\* an empty piece is passed over, a parsed one is collected, and a
\* ValueError leaves the comprehension for the except clause (flash and
\* redirect).
ParseToken ==
    /\ pc = "parsing"
    /\ k <= Len(parts)
    /\ LET x == strip(parts[k])
       IN  IF x = <<>>
           THEN /\ k' = k + 1
                /\ UNCHANGED << tstr, parsed, custom_times, pc, flash >>
           ELSE /\ tstr' = x
                /\ parsed' = parse_time_str(x)
                /\ IF parsed'.ok
                   THEN /\ custom_times' = Append(custom_times, parsed'.val)
                        /\ k' = k + 1
                        /\ UNCHANGED << pc, flash >>
                   ELSE /\ pc' = "invalid"
                        /\ flash' = "invalid_time"
                        /\ UNCHANGED << custom_times, k >>
    /\ UNCHANGED << batch, raw, video, parts, idx, cap, handles, opens,
                    frame_idx, i, positions, reads, frame, results,
                    saved_images, files, manifest >>

\* The comprehension is exhausted: for t in custom_times starts.
ParseDone ==
    /\ pc = "parsing"
    /\ k > Len(parts)
    /\ pc' = "loop"
    /\ idx' = 1
    /\ UNCHANGED << batch, raw, video, parts, k, tstr, parsed, custom_times,
                    cap, handles, opens, frame_idx, i, positions, reads,
                    frame, results, saved_images, files, manifest, flash >>

\* read_frame_at(video_path, t), entry: cap = cv2.VideoCapture(...); a
\* capture that did not open makes the call return None at once.
Open ==
    /\ pc = "loop"
    /\ idx <= Len(custom_times)
    /\ opens' = opens + 1
    /\ positions' = <<>>
    /\ reads' = <<>>
    /\ i' = 0
    /\ IF video.openable
       THEN /\ cap' = "open"
            /\ handles' = handles + 1
            /\ pc' = "seek"
            /\ frame' = frame
       ELSE /\ cap' = "failed"
            /\ handles' = handles
            /\ pc' = "returned"
            /\ frame' = None
    /\ results' = IF video.openable THEN results ELSE Append(results, FALSE)
    /\ UNCHANGED << batch, raw, video, parts, k, tstr, parsed, custom_times,
                    idx, frame_idx, saved_images, files, manifest, flash >>

\* Metadata, clamping, the first cap.set and cap.read.  int() of a NaN
\* raises ValueError, which nothing in read_frame_at or process catches:
\* the request ends with the capture still open.  The outcome of the decode
\* is the decoder's.
Seek ==
    /\ pc = "seek"
    /\ LET t == custom_times[idx]
       IN  IF IsNaN(t)
           THEN /\ pc' = "crashed"
                /\ UNCHANGED << frame_idx, positions, reads >>
           ELSE /\ frame_idx' = FrameIdx(t, video)
                /\ positions' = << frame_idx' >>
                /\ \E ok \in BOOLEAN :
                     /\ reads' = << ok >>
                     /\ pc' = IF ok THEN "release" ELSE "retry"
    /\ i' = 1
    /\ UNCHANGED << batch, raw, video, parts, k, tstr, parsed, custom_times,
                    idx, cap, handles, opens, frame, results, saved_images,
                    files, manifest, flash >>

\* Mutation of Retry: the break on success is missing, so all four retry
\* positions are always tried.
RetryNoBreak ==
    /\ pc = "retry"
    /\ i <= RetryWindow
    /\ positions' = Append(positions, frame_idx - i)
    /\ \E ok \in BOOLEAN :
         /\ reads' = Append(reads, ok)
         /\ pc' = IF i = RetryWindow THEN "release" ELSE "retry"
    /\ i' = i + 1
    /\ UNCHANGED << batch, raw, video, parts, k, tstr, parsed, custom_times,
                    idx, cap, handles, opens, frame_idx, frame, results,
                    saved_images, files, manifest, flash >>

\* One pass of for i in range(1, 5): seek to frame_idx - i and decode; a
\* success breaks out, the last failure ends the loop.
Retry ==
    /\ pc = "retry"
    /\ i <= RetryWindow
    /\ positions' = Append(positions, frame_idx - i)
    /\ \E ok \in BOOLEAN :
         /\ reads' = Append(reads, ok)
         /\ pc' = IF ok \/ i = RetryWindow THEN "release" ELSE "retry"
    /\ i' = i + 1
    /\ UNCHANGED << batch, raw, video, parts, k, tstr, parsed, custom_times,
                    idx, cap, handles, opens, frame_idx, frame, results,
                    saved_images, files, manifest, flash >>

\* cap.release(); return frame if ok else None
Release ==
    /\ pc = "release"
    /\ cap' = "released"
    /\ handles' = handles - 1
    /\ frame' = IF reads[Len(reads)]
                THEN << positions[Len(positions)] >>
                ELSE None
    /\ results' = Append(results, reads[Len(reads)])
    /\ pc' = "returned"
    /\ UNCHANGED << batch, raw, video, parts, k, tstr, parsed, custom_times,
                    idx, opens, frame_idx, i, positions, reads, saved_images,
                    files, manifest, flash >>

\* Mutation of Skip: a timestamp without a frame still gets an entry.
SkipRecordsEntry ==
    /\ pc = "returned"
    /\ frame = None
    /\ saved_images' = Append(saved_images, "frame_none.jpg")
    /\ idx' = idx + 1
    /\ pc' = "loop"
    /\ UNCHANGED << batch, raw, video, parts, k, tstr, parsed, custom_times,
                    cap, handles, opens, frame_idx, i, positions, reads,
                    frame, results, files, manifest, flash >>

\* if frame is None: continue
Skip ==
    /\ pc = "returned"
    /\ frame = None
    /\ idx' = idx + 1
    /\ pc' = "loop"
    /\ UNCHANGED << batch, raw, video, parts, k, tstr, parsed, custom_times,
                    cap, handles, opens, frame_idx, i, positions, reads,
                    frame, results, saved_images, files, manifest, flash >>

\* The frame is scored, saved under its name and recorded.  save_image may
\* raise (disk full, permission denied); nothing catches it.
Save ==
    /\ pc = "returned"
    /\ frame # None
    /\ \E written \in BOOLEAN :
         IF written
         THEN /\ files' = files \cup { FrameName(custom_times[idx]) }
              /\ saved_images' =
                     Append(saved_images, FrameName(custom_times[idx]))
              /\ idx' = idx + 1
              /\ pc' = "loop"
         ELSE /\ pc' = "crashed"
              /\ UNCHANGED << files, saved_images, idx >>
    /\ UNCHANGED << batch, raw, video, parts, k, tstr, parsed, custom_times,
                    cap, handles, opens, frame_idx, i, positions, reads,
                    frame, results, manifest, flash >>

\* After the loop: the manifest is written and the client is redirected
\* to the results page.
Finish ==
    /\ pc = "loop"
    /\ idx > Len(custom_times)
    /\ manifest' = [written |-> TRUE, images |-> saved_images]
    /\ pc' = "done"
    /\ UNCHANGED << batch, raw, video, parts, k, tstr, parsed, custom_times,
                    idx, cap, handles, opens, frame_idx, i, positions, reads,
                    frame, results, saved_images, files, flash >>

Next ==
    \/ Validate
    \/ Split
    \/ ParseToken
    \/ ParseDone
    \/ Open
    \/ Seek
    \/ Retry
    \/ Release
    \/ Skip
    \/ Save
    \/ Finish

Spec == Init /\ [][Next]_vars

\* parse_time_str(tstr) called on its own.
CallParse ==
    /\ pc = "call"
    /\ parsed' = parse_time_str(tstr)
    /\ pc' = "called"
    /\ UNCHANGED << batch, raw, video, parts, k, tstr, custom_times, idx, cap,
                    handles, opens, frame_idx, i, positions, reads, frame,
                    results, saved_images, files, manifest, flash >>

NextParse == CallParse

SpecParse == InitParse /\ [][NextParse]_vars

\* ------------------------------------------------------------------------
\* Properties
\* ------------------------------------------------------------------------

\* The handler has left the parsing phase of a batch it accepted to parse.
PastParsing == pc \in {"invalid", "loop", "seek", "retry", "release",
                       "returned", "crashed", "done"}

\* The request is over.
BatchEnded == pc \in {"rejected", "invalid", "crashed", "done"}

\* A component that is a number >= 0.
NonNegNumber(c) ==
    /\ float(c).ok
    /\ ~IsNaN(float(c).val)
    /\ float(c).val.n >= 0

\* [[hours:]minutes:]seconds with 1 to 3 components, each a number >= 0.
WellFormedToken(tok) ==
    LET ps == SplitColon(tok, <<>>, <<>>)
    IN  /\ Len(ps) \in 1..3
        /\ \A j \in 1..Len(ps) : NonNegNumber(ps[j])

\* The seconds a well-formed token stands for.
TokenSeconds(tok) ==
    LET ps == SplitColon(tok, <<>>, <<>>)
        v(j) == float(ps[j]).val
    IN  IF Len(ps) = 1 THEN v(1)
        ELSE IF Len(ps) = 2 THEN RAdd(RMul(v(1), RInt(60)), v(2))
        ELSE RAdd(RAdd(RMul(v(1), RInt(3600)), RMul(v(2), RInt(60))), v(3))

\* The values of the non-empty tokens, in order.
RECURSIVE TokenValues(_)
TokenValues(ts) ==
    IF ts = <<>> THEN <<>>
    ELSE IF Head(ts) = <<>> THEN TokenValues(Tail(ts))
    ELSE << TokenSeconds(Head(ts)) >> \o TokenValues(Tail(ts))

\* The batch string is well-formed tokens (or empty ones) joined by runs of
\* commas, spaces and newlines, with at least one token to parse.
WellFormedBatch ==
    /\ \A j \in 1..Len(batch.tokens) :
          batch.tokens[j] = <<>> \/ WellFormedToken(batch.tokens[j])
    /\ \E j \in 1..Len(batch.tokens) : batch.tokens[j] # <<>>
    /\ \A j \in 1..Len(batch.seps) :
          /\ batch.seps[j] # <<>>
          /\ \A c \in 1..Len(batch.seps[j]) :
                batch.seps[j][c] \in {",", " ", "\n"}

\* C1: a raw string of valid time tokens separated by any run of commas,
\* spaces and/or newlines parses to the tokens' values in order, empty
\* tokens ignored; a space or a newline alone separates like a comma.
C1_BatchSplit ==
    (WellFormedBatch /\ PastParsing) =>
        /\ pc # "invalid"
        /\ custom_times = TokenValues(batch.tokens)

\* C2: parse_time_str accepts a token exactly when it has 1, 2 or 3
\* colon-separated components that are all non-negative numbers, and then
\* returns seconds, minutes*60+seconds or hours*3600+minutes*60+seconds;
\* every other token fails with the invalid-time-format error.
C2_ParseContract ==
    pc = "called" =>
        /\ parsed.ok <=> WellFormedToken(tstr)
        /\ parsed.ok => parsed.val = TokenSeconds(tstr)

\* The timestamps, among the first Len(res), whose call returned a frame.
RECURSIVE KeptTimes(_, _)
KeptTimes(times, res) ==
    IF res = <<>> THEN <<>>
    ELSE (IF Head(res) THEN << Head(times) >> ELSE <<>>)
         \o KeptTimes(Tail(times), Tail(res))

\* The timestamps the loop is done with that yielded a frame.
Kept == KeptTimes(custom_times, SubSeq(results, 1, idx - 1))

\* C3: the saved images are, in input order, exactly one entry per
\* requested timestamp whose read_frame_at call returned a frame; a None
\* contributes nothing, raises nothing, and the later timestamps are still
\* processed, so a finished batch has handled every timestamp; 0:00, 0:05,
\* 0:09 with every seek succeeding gives frame_0ms, frame_5000ms,
\* frame_9000ms.
C3_BatchOutput ==
    /\ saved_images = [j \in 1..Len(Kept) |-> FrameName(Kept[j])]
    /\ (pc = "returned" /\ frame = None) => ENABLED Skip
    /\ (pc = "crashed") => (cap = "open" \/ frame # None)
    /\ pc = "done" =>
          /\ Len(results) = Len(custom_times)
          /\ manifest.images = saved_images
    /\ ( /\ pc = "done"
         /\ custom_times = << RInt(0), RInt(5), RInt(9) >>
         /\ results = << TRUE, TRUE, TRUE >> ) =>
          saved_images =
              << "frame_0ms.jpg", "frame_5000ms.jpg", "frame_9000ms.jpg" >>

C3_Witness ==
    /\ pc = "done"
    /\ custom_times = << RInt(0), RInt(5), RInt(9) >>
    /\ results = << TRUE, FALSE, TRUE >>
    /\ saved_images = << "frame_0ms.jpg", "frame_9000ms.jpg" >>

\* C4: an unopenable video is fatal for the batch: it does not complete
\* normally with a written manifest as if its timestamps had been skipped.
C4_UnopenableFatal ==
    (cap = "failed") =>
        ~(pc = "done" /\ manifest.written /\ flash = "none")

\* Some piece of the split string is a token parse_time_str rejects.
BadTokenPresent ==
    \E j \in 1..Len(parts) :
        /\ strip(parts[j]) # <<>>
        /\ ~parse_time_str(strip(parts[j])).ok

\* C5: if any token of the batch fails to parse, the batch is aborted
\* before any extraction step: no video handle is opened, no seek is made,
\* no image is persisted and no manifest is written, even when earlier
\* tokens were valid.
C5_FailFast ==
    BadTokenPresent =>
        /\ pc \in {"parsing", "invalid"}
        /\ opens = 0
        /\ handles = 0
        /\ positions = <<>>
        /\ reads = <<>>
        /\ files = {}
        /\ saved_images = <<>>
        /\ ~manifest.written

C5_Witness ==
    /\ pc = "invalid"
    /\ Len(custom_times) >= 1
    /\ flash = "invalid_time"

\* C6: whenever a batch has ended no opened decoder handle remains
\* unreleased, and at most one handle is open at any time.
C6_HandleReleased ==
    /\ handles <= 1
    /\ BatchEnded => handles = 0

\* A call of read_frame_at on an opened video has made its first seek, and
\* idx still points at its timestamp.
FirstSeekDone ==
    /\ pc \in {"retry", "release", "returned"}
    /\ cap \in {"open", "released"}

\* frameRate > 0 (always, given the default), frameCount >= 1, t >= 0.
SeekPrecondition ==
    /\ video.frame_count >= 1
    /\ ~IsNaN(custom_times[idx])
    /\ custom_times[idx].n >= 0

\* t' of the claim: max(0, duration - 0.1) if t > duration, else t.
TargetTime ==
    LET t   == custom_times[idx]
        dur == RDiv(RInt(video.frame_count), Fps(video))
    IN  IF RGt(t, dur) THEN RMax0(RSub(dur, Rat(1, 10))) ELSE t

\* C7: the index first sought is clamp(round(t' * frameRate), 0,
\* frameCount - 1): rounding to the nearest frame, not truncation.
C7_FirstSeekRounded ==
    (FirstSeekDone /\ SeekPrecondition) =>
        positions[1] =
            Max(0, Min(Round(RMul(TargetTime, Fps(video))),
                       video.frame_count - 1))

\* C7 as amended: the index first sought is clamp(int(t' * frameRate), 0,
\* frameCount - 1), the product truncated toward zero; for a 10.0 s video
\* at 30 fps a request for 15.0 s seeks to 297, the index of 9.9 s.
C7_FirstSeekTruncated ==
    (FirstSeekDone /\ SeekPrecondition) =>
        /\ positions[1] =
              Max(0, Min(Trunc(RMul(TargetTime, Fps(video))),
                         video.frame_count - 1))
        /\ ( /\ video.frame_count = 300
             /\ video.fps = 30
             /\ custom_times[idx] = RInt(15) ) => positions[1] = 297

C7_Witness ==
    /\ FirstSeekDone
    /\ video.frame_count = 300
    /\ video.fps = 30
    /\ custom_times[idx] = RInt(15)
    /\ positions[1] = 297

\* C8: every image saved for a timestamp of t >= 0 seconds is named
\* frame_<ms>ms.jpg with ms = round(t * 1000), rounded, not truncated.
C8_NameRounded ==
    \A j \in 1..Len(saved_images) :
        (j <= Len(Kept) /\ Kept[j].n >= 0) =>
            saved_images[j] =
                "frame_" \o IntToStr(Round(RMul(Kept[j], RInt(1000))))
                         \o "ms.jpg"

\* C8 as amended: every image saved for a timestamp of t seconds is named
\* frame_<ms>ms.jpg with ms = int(t * 1000), the product truncated toward
\* zero.
C8_NameTruncated ==
    \A j \in 1..Len(saved_images) :
        /\ j <= Len(Kept)
        /\ saved_images[j] =
              "frame_"
              \o IntToStr(IF Kept[j].n >= 0
                          THEN (1000 * Kept[j].n) \div Kept[j].d
                          ELSE -((1000 * (-Kept[j].n)) \div Kept[j].d))
              \o "ms.jpg"

C8_Witness ==
    /\ pc = "done"
    /\ custom_times = << Rat(506, 10000) >>
    /\ saved_images = << "frame_50ms.jpg" >>

\* C9: when the decode at frame_idx fails, decodes are attempted at
\* frame_idx-1 .. frame_idx-4 in that order; the frame of the first
\* success is returned with no further attempt; None is returned exactly
\* when all 5 attempts fail; at most 5 attempts are made and the call
\* always gets to return.
C9_BoundedRetry ==
    (cap \in {"open", "released"} /\ reads # <<>>) =>
        /\ Len(reads) = Len(positions)
        /\ Len(reads) <= 5
        /\ \A j \in 1..Len(positions) : positions[j] = frame_idx - (j - 1)
        /\ \A j \in 1..(Len(reads) - 1) : ~reads[j]
        /\ pc = "retry" => (ENABLED Retry /\ ~reads[Len(reads)])
        /\ pc = "release" => ENABLED Release
        /\ pc = "release" => (reads[Len(reads)] \/ Len(reads) = 5)
        /\ pc = "returned" =>
              /\ frame = IF reads[Len(reads)]
                         THEN << positions[Len(positions)] >>
                         ELSE None
              /\ frame = None <=>
                    (Len(reads) = 5 /\ \A j \in 1..5 : ~reads[j])
        /\ (pc = "returned" /\ reads = << FALSE, FALSE, TRUE >>) =>
              frame = << frame_idx - 2 >>

C9_Witness ==
    /\ pc = "returned"
    /\ cap = "released"
    /\ reads = << FALSE, FALSE, TRUE >>
    /\ frame_idx = 150
    /\ frame = << 148 >>

\* C10: every frame position read_frame_at sets on the decoder, the first
\* and each retry position, lies in [0, frameCount - 1]; no retry seeks to
\* a negative index.
C10_SeekInRange ==
    \A j \in 1..Len(positions) :
        /\ positions[j] >= 0
        /\ positions[j] <= video.frame_count - 1

====
